---- MODULE Spec2Model ----
(***************************************************************************)
(* Rock-Paper-Scissors-Bomb with an AI Judge.                              *)
(*                                                                         *)
(* The model covers the round state tracker (state.js), the result parser  *)
(* and the judge client with its retry loop (ai-judge.js) and the CLI game *)
(* loop (index.js).  The hosted model is the environment: every provider   *)
(* call may answer with any reply text, an empty reply or an error.        *)
(***************************************************************************)
EXTENDS Integers, Sequences, FiniteSets, TLC

VARIABLES
    state,      \* the RoundState owned by the orchestration loop
    result,     \* the JudgeResult last returned (NoResult when none is held)
    pc,         \* position of the running code
    attempt,    \* judgeRound: loop counter of the retry loop
    lastErr,    \* judgeRound: lastErr
    log,        \* judgeRound: provider calls, their outcomes and waits of this invocation
    env,        \* credentials: options.apiKey and process.env
    text,       \* argument of parseStructuredOutput / reply text being handled
    escaped,    \* TRUE once an exception has left the function under study
    applied,    \* number of results applied to the game state since createState()
    reqs,       \* voice server: the POST /api/voice requests, each at its suspension point
    voiceKey,   \* voice server: process.env.ELEVENLABS_API_KEY
    passed,     \* the last call that was passed the RoundState (judgeRound or
                \* applyRoundResult) and whether the object reads after it as before
    raw,        \* normalize-input: the user's input string
    norm        \* normalize-input: what normalizeMoveInput returned for raw, and then
                \* for its own result

vars == << state, result, pc, attempt, lastErr, log, env, text, escaped, applied, reqs, voiceKey,
          passed, raw, norm >>

(***************************************************************************)
(* JavaScript values, as far as the code tells them apart.  A value is a   *)
(* record [t, v]: t is the type tag, v the string a string (or number)     *)
(* prints as.  "badobj" is an object whose conversion to a string throws   *)
(* (a parsed {"toString": 1, "valueOf": 1}).                               *)
(***************************************************************************)
Undef == [t |-> "undef", v |-> ""]

Null == [t |-> "null", v |-> ""]

Str(s) == [t |-> "str", v |-> s]

Num(s) == [t |-> "num", v |-> s]

Obj == [t |-> "obj", v |-> ""]

BadObj == [t |-> "badobj", v |-> ""]

\* x ?? ''
NullishToEmpty(x) == IF x.t \in {"undef", "null"} THEN Str("") ELSE x

\* String(x): [threw, value]
ToStringJS(x) ==
    CASE x.t = "str"    -> [threw |-> FALSE, value |-> x]
      [] x.t = "num"    -> [threw |-> FALSE, value |-> Str(x.v)]
      [] x.t = "undef"  -> [threw |-> FALSE, value |-> Str("undefined")]
      [] x.t = "null"   -> [threw |-> FALSE, value |-> Str("null")]
      [] x.t = "obj"    -> [threw |-> FALSE, value |-> Str("[object Object]")]
      [] x.t = "badobj" -> [threw |-> TRUE, value |-> Undef]

\* list.includes(x) for a list of string literals: strict equality
Includes(list, x) == x.t = "str" /\ x.v \in list

STATUSES == {"VALID", "INVALID", "UNCLEAR"}

\* 'bomb' left out of the list of moves
MOVES_WithoutBomb == {"rock", "paper", "scissors"}

MOVES == {"rock", "paper", "scissors", "bomb"}

WINNERS == {"user", "bot", "draw"}

(***************************************************************************)
(* Reply texts.  A text is described by what the parser can see of it:     *)
(*   fence  "none"   no code fence                                         *)
(*          "plain"  ```<body>```                                          *)
(*          "json"   ```json<body>```                                      *)
(*          "other"  ```<tag><body>``` with another tag                    *)
(*          "open"   an opening fence that is never closed                 *)
(*   kind   what the body is: "empty", "garbage" (no JSON), or the JSON    *)
(*          value it denotes: "null", "number", "string", "array",         *)
(*          "object"                                                       *)
(*   intent, round_winner, response: the members of a JSON object          *)
(***************************************************************************)
StatusVals == {Str("VALID"), Str("INVALID"), Str("UNCLEAR"), Str("valid"), Undef}

MoveVals == {Str("rock"), Str("paper"), Str("scissors"), Str("bomb"), Str("lizard"), Null}

ReasonVals == {Str("clear"), Str(""), Undef, BadObj}

WinnerVals == {Str("user"), Str("bot"), Str("draw"), Str("nobody"), Null}

ResponseVals == {Str("Round played."), Str(""), Num("7"), Undef, Obj, BadObj}

NoIntentFields == [status |-> Undef, move |-> Undef, reason |-> Undef]

\* obj.intent: an object with members, an array, or no object at all
IntentVals ==
    [t : {"obj"}, status : StatusVals, move : MoveVals, reason : ReasonVals]
    \cup { [t |-> k] @@ NoIntentFields : k \in {"undef", "null", "str", "arr"} }

NoIntent == [t |-> "undef"] @@ NoIntentFields

Fences == {"none", "plain", "json", "other", "open"}

\* len is the length of the text in characters
ObjectTexts ==
    [fence : {"none", "plain", "json"}, kind : {"object"}, intent : IntentVals,
     round_winner : WinnerVals, response : ResponseVals, len : {120}]

PlainText(f, k) ==
    [fence |-> f, kind |-> k, intent |-> NoIntent, round_winner |-> Undef, response |-> Undef,
     len |-> IF f = "none" /\ k = "empty" THEN 0 ELSE 7]

\* the lengths tried for a text that is no JSON object; white space only is "empty"
TextLens(f, k) == IF f = "none" /\ k = "empty" THEN {0, 2} ELSE {7, 500, 501}

WellFormed == Str("Round played.")

OtherTexts ==
    UNION { { [PlainText(f, k) EXCEPT !.len = n] : n \in TextLens(f, k) } :
            f \in Fences, k \in {"empty", "garbage", "null", "number", "string", "array"} }
    \cup { [fence |-> f, kind |-> "object",
            intent |-> [t |-> "obj", status |-> Str("VALID"), move |-> Str("rock"), reason |-> Str("clear")],
            round_winner |-> Str("user"), response |-> WellFormed, len |-> 120] : f \in {"other", "open"} }

Texts == ObjectTexts \cup OtherTexts

\* the replies the provider is taken to give: every combination of status, move
\* and round_winner, in and out of domain, and every text that is not a JSON object
ReplyTexts ==
    { t \in ObjectTexts :
        /\ t.fence = "none"
        /\ t.intent.t = "obj" => t.intent.reason = Str("clear")
        /\ t.response = WellFormed }
    \cup { t \in ObjectTexts :
        /\ t.intent.t = "obj" => (t.intent.status = Str("INVALID") /\ t.intent.move = Str("bomb"))
        /\ t.round_winner = Str("user") }
    \cup OtherTexts

\* what String.prototype.trim leaves: the text itself unless it is all white space
IsBlank(t) == t.fence = "none" /\ t.kind = "empty"

(***************************************************************************)
(* parseStructuredOutput                                                   *)
(***************************************************************************)
\* only an untagged fence stripped
StripFence_UntaggedOnly(t) ==
    CASE t.fence = "none"  -> t.kind
      [] t.fence = "plain" -> t.kind
      [] OTHER             -> "garbage"

\* jsonStr after the code-block regex: the kind of string handed to JSON.parse
StripFence(t) ==
    CASE t.fence = "none"              -> t.kind
      [] t.fence \in {"plain", "json"} -> t.kind
      [] t.fence = "other"             -> "garbage"
      [] t.fence = "open"              -> "garbage"

\* JSON.parse: throws SyntaxError unless the string is a JSON text
JSONParse(kind) ==
    IF kind \in {"empty", "garbage"} THEN [threw |-> TRUE, kind |-> kind]
    ELSE [threw |-> FALSE, kind |-> kind]

JudgeResult(st, mv, rs, w, rp) ==
    [threw |-> FALSE, status |-> st, move |-> mv, reason |-> rs, round_winner |-> w, response |-> rp]

Thrown == [threw |-> TRUE, status |-> Undef, move |-> Undef, reason |-> Undef,
           round_winner |-> Undef, response |-> Undef]

NoResult == [threw |-> FALSE, status |-> Undef, move |-> Undef, reason |-> Undef,
             round_winner |-> Undef, response |-> Undef]

\* the characters of a text of length n: only the length and the position of a
\* character in the text are kept
RECURSIVE Chars(_)
Chars(n) == IF n <= 10 THEN SubSeq("0123456789", 1, n) ELSE "0123456789" \o Chars(n - 10)

RawText(t) == Chars(t.len)

\* s.slice(0, n) for n >= 0
SliceFromStart(s, n) == SubSeq(s, 1, IF Len(s) < n THEN Len(s) ELSE n)

\* the raw text returned whole
RawPrefix_Whole(t) == Str(RawText(t))

\* text.slice(0, 500)
RawPrefix(t) == Str(SliceFromStart(RawText(t), 500))

\* the three values validated together: one bad value and all three get
\* their defaults
ExtractFields_AllOrNothing(t, k) ==
    LET in == IF k = "object" THEN t.intent ELSE NoIntent
        rw == IF k = "object" THEN t.round_winner ELSE Undef
        rp == IF k = "object" THEN t.response ELSE Undef
        isObj == in.t \in {"obj", "arr"}
        reason == ToStringJS(NullishToEmpty(in.reason))
        response == IF rp.t = "str" THEN [threw |-> FALSE, value |-> rp]
                    ELSE ToStringJS(NullishToEmpty(rp))
        allGood == isObj /\ Includes(STATUSES, in.status) /\ Includes(MOVES, in.move)
                   /\ Includes(WINNERS, rw)
    IN  IF k = "null" THEN Thrown
        ELSE IF isObj /\ reason.threw THEN Thrown
        ELSE IF response.threw THEN Thrown
        ELSE JudgeResult(
                IF allGood THEN in.status ELSE Str("UNCLEAR"),
                IF allGood THEN in.move ELSE Null,
                IF isObj THEN reason.value ELSE Str("Missing intent."),
                IF allGood THEN rw ELSE Null,
                response.value)

\* the body of the try block, for a text that parsed to a value of kind k
ExtractFields(t, k) ==
    LET in == IF k = "object" THEN t.intent ELSE NoIntent
        rw == IF k = "object" THEN t.round_winner ELSE Undef
        rp == IF k = "object" THEN t.response ELSE Undef
        isObj == in.t \in {"obj", "arr"}
        reason == ToStringJS(NullishToEmpty(in.reason))
        response == IF rp.t = "str" THEN [threw |-> FALSE, value |-> rp]
                    ELSE ToStringJS(NullishToEmpty(rp))
    IN  IF k = "null" THEN Thrown
        ELSE IF isObj /\ reason.threw THEN Thrown
        ELSE IF response.threw THEN Thrown
        ELSE JudgeResult(
                IF isObj THEN (IF Includes(STATUSES, in.status) THEN in.status ELSE Str("UNCLEAR"))
                         ELSE Str("UNCLEAR"),
                IF isObj THEN (IF Includes(MOVES, in.move) THEN in.move ELSE Null)
                         ELSE Null,
                IF isObj THEN reason.value ELSE Str("Missing intent."),
                IF Includes(WINNERS, rw) THEN rw ELSE Null,
                response.value)

NotJsonResult(t) ==
    JudgeResult(Str("UNCLEAR"), Null, Str("Response was not valid JSON."), Null, RawPrefix(t))

\* the try block closed right after JSON.parse
parseStructuredOutput_NarrowTry(t) ==
    LET parsed == JSONParse(StripFence(t))
    IN  IF parsed.threw THEN NotJsonResult(t) ELSE ExtractFields(t, parsed.kind)

parseStructuredOutput(t) ==
    LET parsed == JSONParse(StripFence(t))
        fields == IF parsed.threw THEN Thrown ELSE ExtractFields(t, parsed.kind)
    IN  IF fields.threw THEN NotJsonResult(t) ELSE fields

(***************************************************************************)
(* Round state tracker (state.js)                                          *)
(***************************************************************************)
TOTAL_ROUNDS == 3

createState == [round |-> 1, userScore |-> 0, botScore |-> 0, bombUsed |-> FALSE]

\* a draw counted as a point for the user
applyRoundResult_DrawScores(s, r) ==
    [round     |-> s.round + 1,
     userScore |-> IF r.round_winner \in {Str("user"), Str("draw")} THEN s.userScore + 1
                   ELSE s.userScore,
     botScore  |-> IF r.round_winner = Str("bot") THEN s.botScore + 1 ELSE s.botScore,
     bombUsed  |-> IF r.move = Str("bomb") THEN TRUE ELSE s.bombUsed]

\* a result that is not VALID does not consume the round
applyRoundResult_SkipInvalid(s, r) ==
    [round     |-> IF r.status = Str("VALID") THEN s.round + 1 ELSE s.round,
     userScore |-> IF r.round_winner = Str("user") THEN s.userScore + 1 ELSE s.userScore,
     botScore  |-> IF r.round_winner = Str("bot") THEN s.botScore + 1 ELSE s.botScore,
     bombUsed  |-> IF r.move = Str("bomb") THEN TRUE ELSE s.bombUsed]

\* bombUsed assigned from the result instead of only set
applyRoundResult_BombReset(s, r) ==
    [round     |-> s.round + 1,
     userScore |-> IF r.round_winner = Str("user") THEN s.userScore + 1 ELSE s.userScore,
     botScore  |-> IF r.round_winner = Str("bot") THEN s.botScore + 1 ELSE s.botScore,
     bombUsed  |-> r.move = Str("bomb")]

applyRoundResult(s, r) ==
    [round     |-> s.round + 1,
     userScore |-> IF r.round_winner = Str("user") THEN s.userScore + 1 ELSE s.userScore,
     botScore  |-> IF r.round_winner = Str("bot") THEN s.botScore + 1 ELSE s.botScore,
     bombUsed  |-> IF r.move = Str("bomb") THEN TRUE ELSE s.bombUsed]

\* the game taken to be over when the last round begins
\* next built by writing into the object passed in
applyRoundResultCall_InPlace(s, r) ==
    [arg |-> applyRoundResult(s, r), ret |-> applyRoundResult(s, r), fresh |-> FALSE]

\* one call of applyRoundResult: arg is the object passed in as it reads after the
\* call, ret the object returned, fresh whether ret is a newly created object
applyRoundResultCall(s, r) ==
    [arg |-> s, ret |-> applyRoundResult(s, r), fresh |-> TRUE]

\* what is recorded of a call of fn with the RoundState s, left reading as after:
\* intact says that round, userScore, botScore and bombUsed read as before the call
Passed(fn, s, after, fresh) ==
    [fn |-> fn,
     intact |-> /\ after.round = s.round /\ after.userScore = s.userScore
                /\ after.botScore = s.botScore /\ after.bombUsed = s.bombUsed,
     fresh |-> fresh]

NotPassed == Passed("none", createState, createState, FALSE)

\* buildRoundPrompt: ret holds the values of the "This round" section of the prompt
\* (the rest of the prompt is fixed text), arg the state object after the call
buildRoundPrompt(s, totalRounds) ==
    [arg |-> s,
     ret |-> [round |-> s.round, userScore |-> s.userScore, botScore |-> s.botScore,
              bombUsed |-> IF s.bombUsed THEN "Yes" ELSE "No",
              isLastRound |-> IF s.round >= totalRounds THEN "Yes" ELSE "No"]]

isGameOver_AtLastRound(s) == s.round >= TOTAL_ROUNDS

isGameOver(s) == s.round > TOTAL_ROUNDS

\* a tie given to the bot
getFinalResult_TieToBot(s) ==
    IF s.userScore > s.botScore THEN "User wins" ELSE "Bot wins"

getFinalResult(s) ==
    IF s.userScore > s.botScore THEN "User wins"
    ELSE IF s.botScore > s.userScore THEN "Bot wins"
    ELSE "Draw"

(***************************************************************************)
(* Provider errors.  An error is described by what the code reads of its   *)
(* message: which of the three patterns the message matches, the delay of  *)
(* a "retry in <n>s" phrase (in units of 0.1 ms; NoDelay when there is no  *)
(* such phrase) and the length of the message.  A thrown value without a   *)
(* message is the error with the empty message.                            *)
(***************************************************************************)
MAX_RETRIES == 2

DEFAULT_RETRY_MS == 10000

NoDelay == -1

\* "retry in 0.0004s", "retry in 7.8455s"
DelayVals == {4, 78455}

MsgLens == {40, 120, 121}

EmptyMsg == [quota |-> FALSE, notFound |-> FALSE, auth |-> FALSE, retry |-> NoDelay, len |-> 0]

\* the length of a message only matters when the message matches no pattern
Errors ==
    { e \in [quota : BOOLEAN, notFound : BOOLEAN, auth : BOOLEAN,
             retry : DelayVals \cup {NoDelay}, len : MsgLens] :
        (e.quota \/ e.notFound \/ e.auth) => e.len = 40 }
    \cup {EmptyMsg}

NoErr == EmptyMsg

\* Math.ceil(a / b) for a >= 0, b > 0
CeilDiv(a, b) == (a + b - 1) \div b

\* every error taken for a rate-limit error
isQuotaError_Any(err) == TRUE

isQuotaError(err) == err.quota

\* the "retry in" phrase of the message ignored
parseRetryDelayMs_AlwaysDefault(err) == DEFAULT_RETRY_MS

parseRetryDelayMs(err) ==
    IF err.retry # NoDelay THEN CeilDiv(err.retry, 10) ELSE DEFAULT_RETRY_MS

\* err.message, of which only the length and the matched patterns are kept
ErrMsg(err) == Chars(err.len)

\* the one character U+2026 (horizontal ellipsis), written ~ here
Ellipsis == "~"

\* the message returned whole
RawSummary_Whole(err) == Str(ErrMsg(err))

\* the message itself, or its first 120 characters and an ellipsis
RawSummary(err) ==
    IF Len(ErrMsg(err)) > 120 THEN Str(SliceFromStart(ErrMsg(err), 120) \o Ellipsis)
    ELSE Str(ErrMsg(err))

\* the model-not-found pattern tested before the rate-limit pattern
shortError_NotFoundFirst(err, provider) ==
    IF err.notFound THEN
        (IF provider = "gemini"
            THEN Str("Model not found. Try setting GEMINI_MODEL (e.g. gemini-2.0-flash).")
            ELSE Str("Model not found. Try setting ANTHROPIC_MODEL (e.g. claude-3-5-haiku-latest)."))
    ELSE IF err.quota THEN
        Str("Rate limit exceeded. Wait ~" \o ToString(CeilDiv(parseRetryDelayMs(err), 1000))
            \o "s and try again.")
    ELSE IF err.auth THEN
        Str("Invalid or missing API key. Set GEMINI_API_KEY or ANTHROPIC_API_KEY.")
    ELSE RawSummary(err)

shortError(err, provider) ==
    IF err.quota THEN
        Str("Rate limit exceeded. Wait ~" \o ToString(CeilDiv(parseRetryDelayMs(err), 1000))
            \o "s and try again.")
    ELSE IF err.notFound THEN
        (IF provider = "gemini"
            THEN Str("Model not found. Try setting GEMINI_MODEL (e.g. gemini-2.0-flash).")
            ELSE Str("Model not found. Try setting ANTHROPIC_MODEL (e.g. claude-3-5-haiku-latest)."))
    ELSE IF err.auth THEN
        Str("Invalid or missing API key. Set GEMINI_API_KEY or ANTHROPIC_API_KEY.")
    ELSE RawSummary(err)

(***************************************************************************)
(* Credentials and provider selection.  A key is "" (unset or empty, both  *)
(* falsy) or a non-empty string.                                           *)
(***************************************************************************)
KeyVals == {"", "k"}

Envs == [optKey : KeyVals, ANTHROPIC_API_KEY : KeyVals, GEMINI_API_KEY : KeyVals,
         GOOGLE_API_KEY : KeyVals]

\* a || b on strings
OrElse(a, b) == IF a # "" THEN a ELSE b

\* Gemini preferred when both keys are set
getProvider_GeminiFirst(e) ==
    LET anthropicKey == OrElse(e.optKey, e.ANTHROPIC_API_KEY)
        geminiKey == OrElse(e.GEMINI_API_KEY, e.GOOGLE_API_KEY)
    IN  IF geminiKey # "" THEN "gemini"
        ELSE IF anthropicKey # "" THEN "claude"
        ELSE "none"

\* Claude taken as the provider when no key is set
getProvider_DefaultClaude(e) ==
    LET geminiKey == OrElse(e.GEMINI_API_KEY, e.GOOGLE_API_KEY)
    IN  IF geminiKey # "" /\ OrElse(e.optKey, e.ANTHROPIC_API_KEY) = "" THEN "gemini"
        ELSE "claude"

getProvider(e) ==
    LET anthropicKey == OrElse(e.optKey, e.ANTHROPIC_API_KEY)
        geminiKey == OrElse(e.GEMINI_API_KEY, e.GOOGLE_API_KEY)
    IN  IF anthropicKey # "" THEN "claude"
        ELSE IF geminiKey # "" THEN "gemini"
        ELSE "none"

(***************************************************************************)
(* judgeRound.  The function suspends at each provider call and at each    *)
(* sleep; one action runs the code from one suspension to the next.        *)
(*   log records, for the running invocation, each provider call issued,   *)
(*   how it ended and each wait that completed.                            *)
(***************************************************************************)
Ev(e, ms) == [e |-> e, ms |-> ms, to |-> "-"]

\* a provider call: callClaude or callGemini, by the provider chosen on entry
CallEv(provider) == [e |-> "call", ms |-> 0, to |-> provider]

\* the record an empty reply would get from the parser
EmptyReplyResult_Parsed == NotJsonResult(PlainText("none", "empty"))

NoKeyResult ==
    JudgeResult(Str("INVALID"), Null,
                Str("No API key. Set GEMINI_API_KEY or ANTHROPIC_API_KEY in .env."), Null,
                Str("Cannot run AI Judge: set either GEMINI_API_KEY or ANTHROPIC_API_KEY in .env."))

EmptyReplyResult ==
    JudgeResult(Str("UNCLEAR"), Null, Str("Model returned no content."), Null,
                Str("No response from the Judge. Try again."))

ErrorResult(short) ==
    JudgeResult(Str("INVALID"), Null, short, Null, Str("Judge error: " \o short.v))

\* entry of judgeRound up to its first suspension (or its return without a key)
JudgeEnter ==
    IF getProvider(env) = "none"
    THEN /\ result' = NoKeyResult
         /\ pc' = "judged"
         /\ log' = << >>
         /\ attempt' = 0
         /\ lastErr' = NoErr
         /\ text' = text
         /\ passed' = Passed("judgeRound", state, state, FALSE)
    ELSE /\ result' = NoResult
         /\ pc' = "calling"
         /\ log' = << CallEv(getProvider(env)) >>
         /\ attempt' = 0
         /\ lastErr' = NoErr
         /\ text' = text
         /\ passed' = Passed("judgeRound", state, buildRoundPrompt(state, TOTAL_ROUNDS).arg, FALSE)

\* the code after the retry loop
GiveUp ==
    /\ pc' = "judged"
    /\ result' = ErrorResult(shortError(lastErr', getProvider(env)))

\* a catch block that rethrows what it does not retry
Catch_Rethrow(err) ==
    /\ lastErr' = err
    /\ log' = Append(log, Ev(IF err.quota THEN "quota" ELSE "other", 0))
    /\ IF attempt < MAX_RETRIES /\ isQuotaError(err)
       THEN /\ pc' = "sleeping"
            /\ escaped' = escaped
       ELSE /\ pc' = "threw"
            /\ escaped' = TRUE
    /\ UNCHANGED << state, result, attempt, env, text, applied, reqs, voiceKey, passed, raw, norm >>

\* a catch block that retries a rate-limit error on every attempt
Catch_NoRetryLimit(err) ==
    /\ lastErr' = err
    /\ log' = Append(log, Ev(IF err.quota THEN "quota" ELSE "other", 0))
    /\ IF isQuotaError(err)
       THEN /\ pc' = "sleeping"
            /\ result' = result
       ELSE GiveUp
    /\ UNCHANGED << state, attempt, env, text, escaped, applied, reqs, voiceKey, passed, raw, norm >>

\* a catch block that keeps the first error of the invocation in lastErr
Catch_KeepsFirstError(err) ==
    /\ lastErr' = (IF attempt = 0 THEN err ELSE lastErr)
    /\ log' = Append(log, Ev(IF err.quota THEN "quota" ELSE "other", 0))
    /\ IF attempt < MAX_RETRIES /\ isQuotaError(err)
       THEN /\ pc' = "sleeping"
            /\ result' = result
       ELSE GiveUp
    /\ UNCHANGED << state, attempt, env, text, escaped, applied, reqs, voiceKey, passed, raw, norm >>

\* the catch block of the retry loop for the caught value err
Catch(err) ==
    /\ lastErr' = err
    /\ log' = Append(log, Ev(IF err.quota THEN "quota" ELSE "other", 0))
    /\ IF attempt < MAX_RETRIES /\ isQuotaError(err)
       THEN /\ pc' = "sleeping"
            /\ result' = result
       ELSE GiveUp
    /\ UNCHANGED << state, attempt, env, text, escaped, applied, reqs, voiceKey, passed, raw, norm >>

\* a TypeError raised inside the try block: its message matches no pattern
TypeErr == [quota |-> FALSE, notFound |-> FALSE, auth |-> FALSE, retry |-> NoDelay, len |-> 40]

\* the provider call resolves with reply text t (already trimmed by callClaude / callGemini)
ReplyArrives(t) ==
    /\ pc = "calling"
    /\ IF IsBlank(t)
       THEN /\ result' = EmptyReplyResult
            /\ log' = Append(log, Ev("empty", 0))
            /\ pc' = "judged"
            /\ UNCHANGED << state, attempt, lastErr, env, text, escaped, applied, reqs, voiceKey, passed, raw, norm >>
       ELSE IF parseStructuredOutput(t).threw
       THEN Catch(TypeErr)
       ELSE /\ result' = parseStructuredOutput(t)
            /\ log' = Append(log, Ev("text", 0))
            /\ pc' = "judged"
            /\ UNCHANGED << state, attempt, lastErr, env, text, escaped, applied, reqs, voiceKey, passed, raw, norm >>

\* the provider call rejects with err
CallFails(err) ==
    /\ pc = "calling"
    /\ Catch(err)

\* the sleep ends: attempt++, the loop condition, and the next provider call
SleepEnds ==
    /\ pc = "sleeping"
    /\ attempt' = attempt + 1
    /\ lastErr' = lastErr
    /\ IF attempt' <= MAX_RETRIES
       THEN /\ log' = log \o << Ev("wait", parseRetryDelayMs(lastErr)), CallEv(getProvider(env)) >>
            /\ pc' = "calling"
            /\ result' = result
       ELSE /\ log' = Append(log, Ev("wait", parseRetryDelayMs(lastErr)))
            /\ GiveUp
    /\ UNCHANGED << state, env, text, escaped, applied, reqs, voiceKey, passed, raw, norm >>

(***************************************************************************)
(* normalize-input.js.  Strings are JavaScript strings, handled character  *)
(* by character.                                                           *)
(***************************************************************************)
Ch(s, i) == SubSeq(s, i, i)

\* \s, as far as the inputs tried go
WhiteSpace == {" ", "\t", "\n"}

UpperCase == "ABCDEFGHIJKLMNOPQRSTUVWXYZ"

LowerCase == "abcdefghijklmnopqrstuvwxyz"

\* \w
WordChars == UpperCase \o LowerCase \o "0123456789_"

IsWordChar(c) == \E i \in 1 .. Len(WordChars) : Ch(WordChars, i) = c

LowerChar(c) ==
    IF \E i \in 1 .. Len(UpperCase) : Ch(UpperCase, i) = c
    THEN Ch(LowerCase, CHOOSE i \in 1 .. Len(UpperCase) : Ch(UpperCase, i) = c)
    ELSE c

RECURSIVE ToLowerCase(_)
ToLowerCase(s) == IF s = "" THEN "" ELSE LowerChar(Ch(s, 1)) \o ToLowerCase(SubSeq(s, 2, Len(s)))

RECURSIVE TrimStart(_)
TrimStart(s) ==
    IF s # "" /\ Ch(s, 1) \in WhiteSpace THEN TrimStart(SubSeq(s, 2, Len(s))) ELSE s

RECURSIVE TrimEnd(_)
TrimEnd(s) ==
    IF s # "" /\ Ch(s, Len(s)) \in WhiteSpace THEN TrimEnd(SubSeq(s, 1, Len(s) - 1)) ELSE s

Trim(s) == TrimEnd(TrimStart(s))

\* s.split(/\s+/)
RECURSIVE SplitOnWhiteSpace(_)
SplitOnWhiteSpace(s) ==
    LET at == {i \in 1 .. Len(s) : Ch(s, i) \in WhiteSpace}
    IN  IF at = {} THEN << s >>
        ELSE LET i == CHOOSE k \in at : \A j \in at : k <= j
             IN  << SubSeq(s, 1, i - 1) >> \o SplitOnWhiteSpace(TrimStart(SubSeq(s, i, Len(s))))

\* s.split(/\b/) for a non-empty s: the maximal runs of word characters and of
\* other characters
RECURSIVE SplitOnWordBoundary(_)
SplitOnWordBoundary(s) ==
    LET brk == {i \in 2 .. Len(s) : IsWordChar(Ch(s, i)) # IsWordChar(Ch(s, i - 1))}
    IN  IF brk = {} THEN << s >>
        ELSE LET i == CHOOSE k \in brk : \A j \in brk : k <= j
             IN  << SubSeq(s, 1, i - 1) >> \o SplitOnWordBoundary(SubSeq(s, i, Len(s)))

CANONICAL == {"rock", "paper", "scissors", "bomb"}

\* the own properties of the object literal TYPO_MAP
TYPO_MAP ==
    [k \in {"scissor", "scisors", "scisor", "sissors", "sissor"} |-> "scissors"]
    @@ [k \in {"roc", "rok", "rck"} |-> "rock"]
    @@ [k \in {"papper", "pape", "papr", "paer"} |-> "paper"]
    @@ [k \in {"bom", "bmb", "bome"} |-> "bomb"]

\* the function-valued properties an object literal inherits from Object.prototype
InheritedFunctions ==
    {"constructor", "hasOwnProperty", "isPrototypeOf", "propertyIsEnumerable",
     "toLocaleString", "toString", "valueOf"}

\* a built-in function; v is what String() makes of it
NativeFunction(name) == [t |-> "fn", v |-> "function " \o name \o "() { [native code] }"]

\* TYPO_MAP[key]: a property read, own properties first and then the prototype's
TypoLookup(key) ==
    IF key \in DOMAIN TYPO_MAP THEN Str(TYPO_MAP[key])
    ELSE IF key = "constructor" THEN NativeFunction("Object")
    ELSE IF key \in InheritedFunctions THEN NativeFunction(key)
    ELSE IF key = "__proto__" THEN Obj
    ELSE Undef

Truthy(x) == x.t \in {"fn", "obj", "badobj"} \/ (x.t \in {"str", "num"} /\ x.v # "")

\* the element of Array.prototype.join for x
JoinPiece(x) == IF x.t = "fn" THEN x.v ELSE ToStringJS(x).value.v

RECURSIVE Join(_)
Join(xs) == IF xs = << >> THEN "" ELSE JoinPiece(Head(xs)) \o Join(Tail(xs))

normalizeExact(input) ==
    LET key == ToLowerCase(Trim(input))
    IN  IF key = "" THEN Str(input)
        ELSE IF Truthy(TypoLookup(key)) THEN TypoLookup(key)
        ELSE IF key \in CANONICAL THEN Str(key)
        ELSE Str(input)

normalizeWords(t) ==
    LET words == SplitOnWordBoundary(t)
        fixed == [i \in DOMAIN words |->
                    IF Truthy(TypoLookup(ToLowerCase(words[i])))
                    THEN TypoLookup(ToLowerCase(words[i])) ELSE Str(words[i])]
    IN  Str(Join(fixed))

\* what a call that threw a TypeError leaves in place of a value
TypeErrorThrown == [t |-> "threw", v |-> "TypeError"]

\* rawValue is a JavaScript value; (raw || '').trim() throws unless raw is falsy or
\* a string
normalizeMoveInput(rawValue) ==
    IF Truthy(rawValue) /\ rawValue.t # "str" THEN TypeErrorThrown
    ELSE LET trimmed == Trim(IF Truthy(rawValue) THEN rawValue.v ELSE "")
         IN  IF trimmed = "" THEN Str(trimmed)
             ELSE IF Len(SplitOnWhiteSpace(trimmed)) = 1 THEN normalizeExact(trimmed)
             ELSE normalizeWords(trimmed)

(***************************************************************************)
(* The voice server keeps one frame per request it is handling: where the  *)
(* handler is suspended, the locals of its judgeRound invocation, the      *)
(* provider calls that invocation has issued and the status code sent.     *)
(***************************************************************************)
MaxRequests == 2

Requests == 1 .. MaxRequests

\* sent is the body of the response: "" while none is sent, "error" for { error },
\* "gameOver" for the game-over notice, "round" for a round with audioBase64 and
\* "roundNoAudio" for a round with audioBase64 null
\* why is what the handler met on its way to the response: "nokey" (no ElevenLabs
\* key), "badjson", "noaudio", "stt" (transcribe rejected), "over" (game over),
\* and for a judged round the outcome of speak: "audio", "empty", "rejects"
IdleFrame ==
    [pc |-> "idle", attempt |-> 0, lastErr |-> NoErr, calls |-> 0, status |-> 0, sent |-> "",
     why |-> ""]

(***************************************************************************)
(* Specification ParseSpec: parseStructuredOutput applied to any text.     *)
(***************************************************************************)
Idle ==
    /\ state = createState
    /\ result = NoResult
    /\ attempt = 0
    /\ lastErr = NoErr
    /\ log = << >>
    /\ escaped = FALSE
    /\ applied = 0
    /\ reqs = [i \in Requests |-> IdleFrame]
    /\ passed = NotPassed
    /\ raw = ""
    /\ norm = << >>

NoEnv == [optKey |-> "", ANTHROPIC_API_KEY |-> "", GEMINI_API_KEY |-> "", GOOGLE_API_KEY |-> ""]

NoText == PlainText("none", "empty")

ParseInit ==
    /\ Idle
    /\ pc = "parse"
    /\ env = NoEnv
    /\ text \in Texts
    /\ voiceKey = ""

ParseCall ==
    /\ pc = "parse"
    /\ LET r == parseStructuredOutput(text)
       IN  /\ result' = r
           /\ escaped' = r.threw
    /\ pc' = "parsed"
    /\ UNCHANGED << state, attempt, lastErr, log, env, text, applied, reqs, voiceKey, passed, raw, norm >>

ParseNext == ParseCall

ParseSpec == ParseInit /\ [][ParseNext]_vars

(***************************************************************************)
(* Specification ApplySpec: applyRoundResult applied to any sequence of    *)
(* well-typed JudgeResults, starting from createState().  result holds the *)
(* result applied last and log the round_winner of every result applied.   *)
(***************************************************************************)
MaxApplied == 4

JudgeResults ==
    { JudgeResult(Str(st), mv, Str("clear"), w, WellFormed) :
        st \in STATUSES, mv \in {Str(m) : m \in MOVES} \cup {Null},
        w \in {Str(x) : x \in WINNERS} \cup {Null} }

ApplyInit ==
    /\ Idle
    /\ pc = "apply"
    /\ env = NoEnv
    /\ text = NoText
    /\ voiceKey = ""

ApplyAny ==
    /\ pc = "apply"
    /\ state.round <= MaxApplied
    /\ \E r \in JudgeResults :
        /\ result' = r
        /\ state' = applyRoundResultCall(state, r).ret
        /\ passed' = Passed("applyRoundResult", state, applyRoundResultCall(state, r).arg,
                            applyRoundResultCall(state, r).fresh)
        /\ log' = Append(log, Ev(r.round_winner.v, 0))
    /\ applied' = applied + 1
    /\ UNCHANGED << pc, attempt, lastErr, env, text, escaped, reqs, voiceKey, raw, norm >>

ApplyNext == ApplyAny

ApplySpec == ApplyInit /\ [][ApplyNext]_vars

(***************************************************************************)
(* Specification JudgeSpec: one invocation of judgeRound under any         *)
(* credentials and any behaviour of the provider.                          *)
(***************************************************************************)
JudgeInit ==
    /\ Idle
    /\ pc = "enter"
    /\ env \in Envs
    /\ text = NoText
    /\ voiceKey = ""

JudgeStart ==
    /\ pc = "enter"
    /\ JudgeEnter
    /\ UNCHANGED << state, env, escaped, applied, reqs, voiceKey, raw, norm >>

ProviderAnswers ==
    /\ pc = "calling"
    /\ \/ \E t \in ReplyTexts : ReplyArrives(t)
       \/ \E err \in Errors : CallFails(err)

JudgeNext ==
    \/ JudgeStart
    \/ ProviderAnswers
    \/ SleepEnds

JudgeSpec == JudgeInit /\ [][JudgeNext]_vars

\* a step taken while the provider call is pending: in JudgeSpec only
\* ProviderAnswers takes such a step
Answered == pc = "calling"

\* judgeRound is entered, every sleep ends, and every provider call is answered:
\* weak fairness of the three actions, the last one written out with
\* << Answered >>_vars for << ProviderAnswers >>_vars
JudgeLive ==
    /\ JudgeSpec
    /\ WF_vars(JudgeStart)
    /\ WF_vars(SleepEnds)
    /\ ([]<>~(ENABLED << ProviderAnswers >>_vars) \/ []<><< Answered >>_vars)

(***************************************************************************)
(* Specification Spec: the CLI game loop (main).  The CLI passes no        *)
(* options to judgeRound.                                                  *)
(***************************************************************************)
Init ==
    /\ Idle
    /\ pc = "ask"
    /\ env \in {e \in Envs : e.optKey = ""}
    /\ text = NoText
    /\ voiceKey = ""

\* the user typed quit or exit
AskQuit ==
    /\ pc = "ask"
    /\ pc' = "exited"
    /\ UNCHANGED << state, result, attempt, lastErr, log, env, text, escaped, applied, reqs, voiceKey, passed, raw, norm >>

\* the user typed anything else: bot move, normalisation and the call of judgeRound
AskMove ==
    /\ pc = "ask"
    /\ JudgeEnter
    /\ UNCHANGED << state, env, escaped, applied, reqs, voiceKey, raw, norm >>

\* judgeRound returned (its frame is gone): print, apply the result and test the
\* loop condition
ApplyResult ==
    /\ pc = "judged"
    /\ state' = applyRoundResultCall(state, result).ret
    /\ passed' = Passed("applyRoundResult", state, applyRoundResultCall(state, result).arg,
                        applyRoundResultCall(state, result).fresh)
    /\ result' = NoResult
    /\ attempt' = 0
    /\ lastErr' = NoErr
    /\ log' = << >>
    /\ applied' = applied + 1
    /\ pc' = IF isGameOver(state') THEN "final" ELSE "ask"
    /\ UNCHANGED << env, text, escaped, reqs, voiceKey, raw, norm >>

\* after the loop: print the final result and exit
Finish ==
    /\ pc = "final"
    /\ pc' = "exited"
    /\ UNCHANGED << state, result, attempt, lastErr, log, env, text, escaped, applied, reqs, voiceKey, passed, raw, norm >>

Next ==
    \/ AskQuit
    \/ AskMove
    \/ ProviderAnswers
    \/ SleepEnds
    \/ ApplyResult
    \/ Finish

Spec == Init /\ [][Next]_vars

(***************************************************************************)
(* Specification ServerSpec: the voice server.  Node runs one handler at a *)
(* time up to its next await; requests arrive at any time, so handlers of  *)
(* several requests are suspended at once and resume in any order.  All    *)
(* handlers share the module-level state.  judgeRound is called without    *)
(* options.                                                                *)
(***************************************************************************)
\* res.statusCode and res.end: the handler of request i is finished
Respond(i, code, body, why) ==
    reqs' = [reqs EXCEPT ![i] = [IdleFrame EXCEPT !.pc = "done", !.status = code, !.sent = body,
                                                  !.why = why]]

\* the replies and errors the provider is taken to give to the server
ServerReplies ==
    { t \in ReplyTexts :
        /\ t.fence = "none"
        /\ t.kind \in {"empty", "garbage", "object"}
        /\ t.len \in {0, 7, 120}
        /\ t.kind = "object" =>
              /\ t.intent.t = "obj"
              /\ t.intent.status = Str("VALID")
              /\ t.intent.move \in {Str("rock"), Str("bomb")}
              /\ t.round_winner \in {Str("user"), Str("bot"), Str("draw")}
              /\ t.response = WellFormed }

ServerErrors == { err \in Errors : err.len = 40 /\ err.retry = NoDelay /\ ~err.notFound /\ ~err.auth }

ServerInit ==
    /\ Idle
    /\ pc = "serving"
    /\ env \in {e \in Envs : e.optKey = "" /\ e.GOOGLE_API_KEY = ""}
    /\ text = NoText
    /\ voiceKey \in KeyVals

\* POST /api/voice: handleVoice up to its await of parseJsonBody
VoiceArrives(i) ==
    /\ pc = "serving"
    /\ reqs[i].pc \in {"idle", "done"}
    /\ IF voiceKey = ""
       THEN Respond(i, 500, "error", "nokey")
       ELSE reqs' = [reqs EXCEPT ![i] = [IdleFrame EXCEPT !.pc = "body"]]
    /\ UNCHANGED << state, result, pc, attempt, lastErr, log, env, text, escaped, applied, voiceKey, passed, raw, norm >>

\* the request body has been read: "badjson" rejects, "noaudio" has no audio
\* field, "audio" has one; then the game-over test and the call of transcribe
BodyEnds(i, body) ==
    /\ reqs[i].pc = "body"
    /\ IF body = "badjson" THEN Respond(i, 500, "error", "badjson")
       ELSE IF body = "noaudio" THEN Respond(i, 400, "error", "noaudio")
       ELSE IF isGameOver(state) THEN Respond(i, 200, "gameOver", "over")
       ELSE reqs' = [reqs EXCEPT ![i].pc = "transcribing"]
    /\ UNCHANGED << state, result, pc, attempt, lastErr, log, env, text, escaped, applied, voiceKey, passed, raw, norm >>

\* judgeRound of request i returned r: the result is applied to the shared state
\* and speak is called
VoiceApply(i, r) ==
    /\ state' = applyRoundResultCall(state, r).ret
    /\ passed' = Passed("applyRoundResult", state, applyRoundResultCall(state, r).arg,
                        applyRoundResultCall(state, r).fresh)
    /\ reqs' = [reqs EXCEPT ![i] = [IdleFrame EXCEPT !.pc = "speaking", !.calls = reqs[i].calls]]

\* transcribe settled: a rejection goes to the outer catch; otherwise the
\* entry of judgeRound up to its first provider call
TranscribeEnds(i, ok) ==
    /\ reqs[i].pc = "transcribing"
    /\ IF ~ok
       THEN Respond(i, 500, "error", "stt") /\ UNCHANGED << state, passed >>
       ELSE IF getProvider(env) = "none"
       THEN VoiceApply(i, NoKeyResult)
       ELSE /\ reqs' = [reqs EXCEPT ![i] = [IdleFrame EXCEPT !.pc = "calling", !.calls = 1]]
            /\ passed' = Passed("judgeRound", state, buildRoundPrompt(state, TOTAL_ROUNDS).arg, FALSE)
            /\ state' = state
    /\ UNCHANGED << result, pc, attempt, lastErr, log, env, text, escaped, applied, voiceKey, raw, norm >>

\* the catch block of the retry loop of request i
VoiceCatch(i, err) ==
    IF reqs[i].attempt < MAX_RETRIES /\ isQuotaError(err)
    THEN /\ reqs' = [reqs EXCEPT ![i].pc = "sleeping", ![i].lastErr = err]
         /\ UNCHANGED << state, passed >>
    ELSE VoiceApply(i, ErrorResult(shortError(err, getProvider(env))))

\* the provider call of request i resolves with reply text t
VoiceReplyArrives(i, t) ==
    /\ reqs[i].pc = "calling"
    /\ IF IsBlank(t) THEN VoiceApply(i, EmptyReplyResult)
       ELSE IF parseStructuredOutput(t).threw THEN VoiceCatch(i, TypeErr)
       ELSE VoiceApply(i, parseStructuredOutput(t))
    /\ UNCHANGED << result, pc, attempt, lastErr, log, env, text, escaped, applied, voiceKey, raw, norm >>

\* the provider call of request i rejects with err
VoiceCallFails(i, err) ==
    /\ reqs[i].pc = "calling"
    /\ VoiceCatch(i, err)
    /\ UNCHANGED << result, pc, attempt, lastErr, log, env, text, escaped, applied, voiceKey, raw, norm >>

\* the sleep of request i ends: attempt++ and the next provider call
VoiceSleepEnds(i) ==
    /\ reqs[i].pc = "sleeping"
    /\ reqs' = [reqs EXCEPT ![i].pc = "calling", ![i].attempt = @ + 1, ![i].calls = @ + 1]
    /\ UNCHANGED << state, result, pc, attempt, lastErr, log, env, text, escaped, applied, voiceKey, passed, raw, norm >>

\* a rejection of speak taken to the outer catch
SpeakEnds_RejectionEscapes(i, out) ==
    /\ reqs[i].pc = "speaking"
    /\ IF out = "rejects" THEN Respond(i, 500, "error", out)
       ELSE Respond(i, 200, IF out = "audio" THEN "round" ELSE "roundNoAudio", out)
    /\ UNCHANGED << state, result, pc, attempt, lastErr, log, env, text, escaped, applied, voiceKey, passed, raw, norm >>

\* speak settled: with audio, with an empty buffer, or rejected (caught and
\* logged); the response is 200 in every case, with audioBase64 null unless there
\* is audio
SpeakEnds(i, out) ==
    /\ reqs[i].pc = "speaking"
    /\ Respond(i, 200, IF out = "audio" THEN "round" ELSE "roundNoAudio", out)
    /\ UNCHANGED << state, result, pc, attempt, lastErr, log, env, text, escaped, applied, voiceKey, passed, raw, norm >>

\* POST /api/new-game
NewGame ==
    /\ pc = "serving"
    /\ state' = createState
    /\ UNCHANGED << result, pc, attempt, lastErr, log, env, text, escaped, applied, reqs, voiceKey, passed, raw, norm >>

ServerNext ==
    \/ \E i \in Requests : VoiceArrives(i)
    \/ \E i \in Requests, body \in {"badjson", "noaudio", "audio"} : BodyEnds(i, body)
    \/ \E i \in Requests, ok \in BOOLEAN : TranscribeEnds(i, ok)
    \/ \E i \in Requests, t \in ServerReplies : VoiceReplyArrives(i, t)
    \/ \E i \in Requests, err \in ServerErrors : VoiceCallFails(i, err)
    \/ \E i \in Requests : VoiceSleepEnds(i)
    \/ \E i \in Requests, out \in {"audio", "empty", "rejects"} : SpeakEnds(i, out)
    \/ NewGame

ServerSpec == ServerInit /\ [][ServerNext]_vars

(***************************************************************************)
(* Specification NormSpec: normalizeMoveInput applied to a user input and   *)
(* then to its own result.                                                 *)
(***************************************************************************)
InputWords ==
    {"rock", "ROCK", "Paper", "scissors", "scissor", "Sissor", "BOM", "bomb", "rok",
     "lizard", "constructor", "__proto__", "I", "play"}

RawInputs ==
    {"", "  "}
    \cup {pre \o w \o post : pre \in {"", " "}, w \in InputWords, post \in {"", "\n"}}
    \cup {a \o sep \o b : a \in InputWords, sep \in {" ", ", ", "\t "}, b \in InputWords}

NormInit ==
    /\ state = createState
    /\ result = NoResult
    /\ attempt = 0
    /\ lastErr = NoErr
    /\ log = << >>
    /\ escaped = FALSE
    /\ applied = 0
    /\ reqs = [i \in Requests |-> IdleFrame]
    /\ passed = NotPassed
    /\ pc = "normalize"
    /\ env = NoEnv
    /\ text = NoText
    /\ voiceKey = ""
    /\ raw \in RawInputs
    /\ norm = << >>

NormalizeInput ==
    /\ pc = "normalize"
    /\ norm = << >>
    /\ norm' = << normalizeMoveInput(Str(raw)) >>
    /\ UNCHANGED << state, result, pc, attempt, lastErr, log, env, text, escaped, applied, reqs,
                    voiceKey, passed, raw >>

NormalizeAgain ==
    /\ pc = "normalize"
    /\ Len(norm) = 1
    /\ norm' = Append(norm, normalizeMoveInput(norm[1]))
    /\ UNCHANGED << state, result, pc, attempt, lastErr, log, env, text, escaped, applied, reqs,
                    voiceKey, passed, raw >>

NormNext == NormalizeInput \/ NormalizeAgain

NormSpec == NormInit /\ [][NormNext]_vars

(***************************************************************************)
(* Specification LoopsSpec: the two orchestration loops, the CLI game loop *)
(* and the voice server; a run is a run of one of them.                    *)
(***************************************************************************)
LoopsInit == Init \/ ServerInit

LoopsNext == Next \/ ServerNext

LoopsSpec == LoopsInit /\ [][LoopsNext]_vars

(***************************************************************************)
(* Properties of the round state tracker, under ApplySpec.                 *)
(***************************************************************************)
\* C1: applying a result adds exactly 1 to userScore iff its round_winner is 'user'
\* and exactly 1 to botScore iff it is 'bot'; for 'draw' and null both scores stay;
\* no score ever decreases.
C1_ScoresFollowWinner ==
    [][ /\ state'.userScore =
            state.userScore + (IF result'.round_winner = Str("user") THEN 1 ELSE 0)
        /\ state'.botScore =
            state.botScore + (IF result'.round_winner = Str("bot") THEN 1 ELSE 0)
        /\ state'.userScore >= state.userScore
        /\ state'.botScore >= state.botScore ]_vars

\* a draw applied after both sides have scored
C1_Witness ==
    /\ state.userScore = 1
    /\ state.botScore = 1
    /\ result.round_winner = Str("draw")
    /\ applied = 3

\* C2: every applied result advances round by one, whatever its status, move or
\* winner: after n applied results the round is n + 1.
C2_RoundCountsResults == state.round = applied + 1

\* three results applied, the last of them INVALID
C2_Witness ==
    /\ applied = 3
    /\ state.round = 4
    /\ result.status = Str("INVALID")

\* C3: bombUsed after a result is applied holds iff it held before or the result's
\* move is 'bomb'; once true it stays true.
C3_BombUsedMonotonic ==
    [][ /\ state'.bombUsed = (state.bombUsed \/ result'.move = Str("bomb"))
        /\ state.bombUsed => state'.bombUsed ]_vars

\* bombUsed still true after a later result with another move
C3_Witness ==
    /\ state.bombUsed
    /\ result.move = Str("rock")
    /\ applied >= 2

(***************************************************************************)
(* Properties of parseStructuredOutput, under ParseSpec.                   *)
(***************************************************************************)
Populated(r) ==
    /\ ~r.threw
    /\ r.status.t = "str" /\ r.status.v \in STATUSES
    /\ r.move = Null \/ (r.move.t = "str" /\ r.move.v \in MOVES)
    /\ r.round_winner = Null \/ (r.round_winner.t = "str" /\ r.round_winner.v \in WINNERS)
    /\ r.reason.t = "str"
    /\ r.response.t = "str"

\* C4: parseStructuredOutput returns, for every text, without throwing, a record
\* whose status, move and round_winner are in their closed sets and whose reason
\* and response are strings.
C4_ParserTotal == pc = "parsed" => (~escaped /\ Populated(result))

\* the JSON text null inside a json fence: member access on it raises a TypeError
C4_Witness ==
    /\ pc = "parsed"
    /\ text.fence = "json"
    /\ text.kind = "null"
    /\ result.status = Str("UNCLEAR")

\* the text, fence stripped or not, is no JSON text
NotJson(t) == t.kind \in {"empty", "garbage"} \/ t.fence \in {"other", "open"}

\* C15: for a text that does not parse as JSON the parser returns UNCLEAR, a null
\* move, the reason 'Response was not valid JSON.', a null round_winner and as
\* response the first 500 characters of the raw text (all of it when it has 500
\* or fewer), so the response is never longer than 500.
C15_NotJsonFallback ==
    (pc = "parsed" /\ NotJson(text)) =>
        /\ result.status = Str("UNCLEAR")
        /\ result.move = Null
        /\ result.reason = Str("Response was not valid JSON.")
        /\ result.round_winner = Null
        /\ result.response.t = "str"
        /\ Len(result.response.v) <= 500
        /\ Len(result.response.v) = (IF text.len <= 500 THEN text.len ELSE 500)
        /\ result.response.v = SubSeq(RawText(text), 1, Len(result.response.v))

\* a text of 501 characters that is no JSON, cut to 500
C15_Witness ==
    /\ pc = "parsed"
    /\ text.kind = "garbage"
    /\ text.fence = "none"
    /\ text.len = 501
    /\ Len(result.response.v) = 500

\* the records of the output shape with values of the closed sets
ShapedRecords ==
    { JudgeResult(Str(st), mv, Str(rs), w, Str(rp)) :
        st \in {"VALID", "INVALID", "UNCLEAR"},
        mv \in {Str("rock"), Str("paper"), Str("scissors"), Str("bomb"), Null},
        rs \in {"clear", ""},
        w \in {Str("user"), Str("bot"), Str("draw"), Null},
        rp \in {"Round played.", ""} }

\* JSON.stringify of a record of the output shape: an object text without fence
Serialize(r) ==
    [fence |-> "none", kind |-> "object",
     intent |-> [t |-> "obj", status |-> r.status, move |-> r.move, reason |-> r.reason],
     round_winner |-> r.round_winner, response |-> r.response, len |-> 120]

\* C16: parsing the JSON serialization of a record of the output shape gives back
\* the same five values.
C16_RoundTrip ==
    pc = "parsed" => \A r \in ShapedRecords : text = Serialize(r) => result = r

\* the serialization of an INVALID record with move bomb, winner bot and empty
\* strings has been parsed
C16_Witness ==
    /\ pc = "parsed"
    /\ text = Serialize(JudgeResult(Str("INVALID"), Str("bomb"), Str(""), Str("bot"), Str("")))
    /\ result.move = Str("bomb")

(***************************************************************************)
(* Properties of judgeRound, under JudgeSpec and JudgeLive.                *)
(***************************************************************************)
\* C5: every result judgeRound returns (the parser's results among them) has a
\* null move and a null round_winner unless its status is VALID.
C5_NonValidImpliesNull ==
    pc = "judged" =>
        (result.status # Str("VALID") => (result.move = Null /\ result.round_winner = Null))

\* the events of the log that are provider calls
CallsAt(l) == {i \in DOMAIN l : l[i].e = "call"}

\* the events of the log that are outcomes of provider calls
OutcomesAt(l) == {i \in DOMAIN l : l[i].e \in {"text", "empty", "quota", "other"}}

\* the invocation returned on a failure path: no credential, or a failed last call
FailurePath == log = << >> \/ log[Len(log)].e \in {"quota", "other", "wait"}

\* C7: judgeRound lets no error escape and terminates by returning a fully
\* populated record; on every failure path the record is INVALID with null move
\* and null round_winner.
C7_NoErrorEscapes ==
    /\ [](/\ ~escaped
          /\ pc = "judged" =>
                /\ Populated(result)
                /\ FailurePath =>
                      /\ result.status = Str("INVALID")
                      /\ result.move = Null
                      /\ result.round_winner = Null)
    /\ <>(pc = "judged")

\* returned after a rate-limit error followed by an error of another kind
C7_Witness ==
    /\ pc = "judged"
    /\ Len(log) = 5
    /\ log[2].e = "quota"
    /\ log[5].e = "other"
    /\ result.status = Str("INVALID")

\* C8: one invocation makes at most 3 provider calls; a further call is made only
\* after a call failed with a rate-limit error and fewer than 2 retries were used;
\* a reply (empty or not) or any other error ends the loop with no further call.
C8_BoundedRetries ==
    /\ Cardinality(CallsAt(log)) <= 3
    /\ \A i \in CallsAt(log) :
          i > 1 => /\ i >= 4
                   /\ log[i - 2].e = "quota"
                   /\ log[i - 1].e = "wait"
                   /\ Cardinality({j \in CallsAt(log) : j < i}) - 1 < 2
    /\ \A i \in DOMAIN log : log[i].e \in {"text", "empty", "other"} => i = Len(log)

\* a third call answered with a reply
C8_Witness ==
    /\ pc = "judged"
    /\ Cardinality(CallsAt(log)) = 3
    /\ log[Len(log)].e = "text"

\* the seconds a message's "retry in" phrase rounds up to, 10 without one
WaitSeconds(err) == IF err.retry = NoDelay THEN 10 ELSE (err.retry + 9999) \div 10000

AllRateLimited ==
    /\ pc = "judged"
    /\ OutcomesAt(log) # {}
    /\ \A i \in OutcomesAt(log) : log[i].e = "quota"

\* C9: when every provider call of an invocation fails with a rate-limit error,
\* exactly 3 calls are made and the result is INVALID with a null round_winner and
\* the rate-limit message, with the wait in seconds, as reason and in the response.
C9_RateLimitExhausted ==
    AllRateLimited =>
        /\ Cardinality(CallsAt(log)) = 3
        /\ result.status = Str("INVALID")
        /\ result.round_winner = Null
        /\ result.reason =
              Str("Rate limit exceeded. Wait ~" \o ToString(WaitSeconds(lastErr))
                  \o "s and try again.")
        /\ result.response =
              Str("Judge error: Rate limit exceeded. Wait ~" \o ToString(WaitSeconds(lastErr))
                  \o "s and try again.")

\* three rate-limited calls, the last message asking to retry in 7.8455s and
\* matching the model-not-found pattern as well
C9_Witness ==
    /\ AllRateLimited
    /\ lastErr.retry = 78455
    /\ lastErr.notFound
    /\ result.reason = Str("Rate limit exceeded. Wait ~8s and try again.")

NoCredential ==
    /\ env.optKey = ""
    /\ env.ANTHROPIC_API_KEY = ""
    /\ env.GEMINI_API_KEY = ""
    /\ env.GOOGLE_API_KEY = ""

\* C10: without any credential judgeRound returns INVALID, null move, null
\* round_winner and the fixed message, makes no provider call and never waits.
C10_NoCredentialNoCall ==
    NoCredential =>
        /\ log = << >>
        /\ pc \in {"enter", "judged"}
        /\ pc = "judged" =>
              /\ result.status = Str("INVALID")
              /\ result.move = Null
              /\ result.round_winner = Null
              /\ result.reason =
                    Str("No API key. Set GEMINI_API_KEY or ANTHROPIC_API_KEY in .env.")
              /\ result.response =
                    Str("Cannot run AI Judge: set either GEMINI_API_KEY or ANTHROPIC_API_KEY in .env.")

\* judgeRound has returned with no credential configured
C10_Witness ==
    /\ NoCredential
    /\ pc = "judged"
    /\ result.status = Str("INVALID")

(***************************************************************************)
(* Properties of the round pipeline, under Spec.                           *)
(***************************************************************************)
\* C6: when the judged result is INVALID or UNCLEAR, applying it leaves userScore,
\* botScore and bombUsed unchanged.
C6_InvalidWastesTurn ==
    [][ (pc = "judged" /\ result.status \in {Str("INVALID"), Str("UNCLEAR")}) =>
            /\ state'.userScore = state.userScore
            /\ state'.botScore = state.botScore
            /\ state'.bombUsed = state.bombUsed ]_vars

(***************************************************************************)
(* Properties of the CLI game loop, under Spec.                            *)
(***************************************************************************)
\* C13: isGameOver holds iff round > 3; the loop ends after exactly 3 judged
\* rounds (round = 4) whatever the results, and judgeRound is never running or
\* about to be called once the game is over.
C13_ThreeRounds ==
    /\ isGameOver(state) <=> state.round > 3
    /\ applied <= 3
    /\ pc = "final" => (applied = 3 /\ state.round = 4)
    /\ pc \in {"ask", "calling", "sleeping", "judged"} => (state.round <= 3 /\ applied < 3)

\* the loop has ended after three rounds in which nobody scored
C13_Witness ==
    /\ pc = "final"
    /\ applied = 3
    /\ state.userScore = 0
    /\ state.botScore = 0

(***************************************************************************)
(* Properties of getFinalResult, under ApplySpec.                          *)
(***************************************************************************)
\* the round_winners of the results applied so far, in order
WinnersApplied == [i \in DOMAIN log |-> log[i].e]

\* C14: getFinalResult is 'User wins' iff userScore > botScore, 'Bot wins' iff
\* botScore > userScore and 'Draw' iff they are equal; winners user, bot, draw
\* applied to the initial state give scores 1 and 1 and 'Draw'.
C14_FinalResult ==
    /\ getFinalResult(state) = "User wins" <=> state.userScore > state.botScore
    /\ getFinalResult(state) = "Bot wins" <=> state.botScore > state.userScore
    /\ getFinalResult(state) = "Draw" <=> state.userScore = state.botScore
    /\ WinnersApplied = << "user", "bot", "draw" >> =>
          /\ state.userScore = 1
          /\ state.botScore = 1
          /\ getFinalResult(state) = "Draw"

\* the three rounds of the scenario have been applied
C14_Witness ==
    /\ WinnersApplied = << "user", "bot", "draw" >>
    /\ getFinalResult(state) = "Draw"

\* the error summary of an invocation that failed on an error matching no pattern
PatternFreeFailure ==
    /\ pc = "judged"
    /\ log # << >>
    /\ log[Len(log)].e = "other"
    /\ ~lastErr.quota /\ ~lastErr.notFound /\ ~lastErr.auth

\* C17 as stated: the summary of an error matching no pattern is at most 120
\* characters long and is never the whole message when that is longer than 120.
C17_SummaryAtMost120 ==
    PatternFreeFailure =>
        /\ Len(result.reason.v) <= 120
        /\ lastErr.len > 120 => result.reason.v # ErrMsg(lastErr)

\* C17 amended: the summary is the whole message when that has at most 120
\* characters, and otherwise its first 120 characters followed by one ellipsis
\* character, 121 characters in all; a longer message is never returned whole.
C17_SummaryAtMost121 ==
    PatternFreeFailure =>
        /\ Len(result.reason.v) <= 121
        /\ lastErr.len <= 120 => result.reason.v = ErrMsg(lastErr)
        /\ lastErr.len > 120 =>
              /\ Len(result.reason.v) = 121
              /\ SubSeq(result.reason.v, 1, 120) = SubSeq(ErrMsg(lastErr), 1, 120)
              /\ result.reason.v # ErrMsg(lastErr)

\* a message of 121 characters matching no pattern, summarised in 121 characters
C17_Witness ==
    /\ PatternFreeFailure
    /\ lastErr.len = 121
    /\ Len(result.reason.v) = 121

\* C18: a provider call that succeeds with empty reply text ends the invocation
\* at once, on whichever attempt: the result is UNCLEAR with null move, null
\* round_winner and the fixed response; it is not the parser's record for a
\* text that is no JSON; no call or wait follows the empty reply.
C18_EmptyReply ==
    \A i \in DOMAIN log : log[i].e = "empty" =>
        /\ i = Len(log)
        /\ pc = "judged"
        /\ log[i - 1].e = "call"
        /\ Cardinality(CallsAt(log)) = attempt + 1
        /\ result.status = Str("UNCLEAR")
        /\ result.move = Null
        /\ result.round_winner = Null
        /\ result.response = Str("No response from the Judge. Try again.")
        /\ result.reason = Str("Model returned no content.")
        /\ result.reason # Str("Response was not valid JSON.")

\* an empty reply to the second call, after one rate-limit wait
C18_Witness ==
    /\ pc = "judged"
    /\ log # << >>
    /\ log[Len(log)].e = "empty"
    /\ attempt = 1
    /\ result.status = Str("UNCLEAR")

\* the provider the credentials call for, stated from the keys
ExpectedProvider ==
    IF env.optKey # "" \/ env.ANTHROPIC_API_KEY # "" THEN "claude"
    ELSE IF env.GEMINI_API_KEY # "" \/ env.GOOGLE_API_KEY # "" THEN "gemini"
    ELSE "none"

\* C19: every call goes to Claude when an Anthropic key is present (options.apiKey
\* or ANTHROPIC_API_KEY), whether or not a Gemini key is present, and to Gemini
\* only when no Anthropic key is present and GEMINI_API_KEY or GOOGLE_API_KEY is;
\* all calls of one invocation go to the same provider.
C19_ProviderSelection ==
    /\ \A i \in CallsAt(log) :
          /\ log[i].to = ExpectedProvider
          /\ log[i].to \in {"claude", "gemini"}
          /\ log[i].to = "gemini" <=>
                (env.optKey = "" /\ env.ANTHROPIC_API_KEY = ""
                 /\ (env.GEMINI_API_KEY # "" \/ env.GOOGLE_API_KEY # ""))
    /\ \A i, j \in CallsAt(log) : log[i].to = log[j].to

\* three calls made to Claude with both an Anthropic and a Gemini key set
C19_Witness ==
    /\ env.ANTHROPIC_API_KEY # "" /\ env.GEMINI_API_KEY # ""
    /\ Cardinality(CallsAt(log)) = 3
    /\ \A i \in CallsAt(log) : log[i].to = "claude"

\* C20: bomb is used at most once per game: once a round with move bomb has been
\* applied (bombUsed is true), no later round is applied with move bomb, and so
\* none changes a score by it.
C20_BombOnce ==
    [][(state'.round = state.round + 1 /\ state.bombUsed) =>
          /\ result.move # Str("bomb")
          /\ state'.bombUsed]_vars

\* the requests whose judgeRound invocation has begun and has not returned
InFlight == {i \in Requests : reqs[i].pc \in {"calling", "sleeping"}}

\* C12: rounds are strictly sequential: there are never two judgeRound
\* invocations in flight at once.
C12_OneJudgeInFlight == Cardinality(InFlight) <= 1

\* the waits completed in the running invocation
WaitsAt(l) == {i \in DOMAIN l : l[i].e = "wait"}

\* C11 as stated: every result about to be applied (CLI) or just applied (voice
\* server) comes from an invocation that made exactly one provider call.
C11_ExactlyOneCall ==
    /\ pc = "judged" => Cardinality(CallsAt(log)) = 1
    /\ \A i \in Requests : reqs[i].pc = "speaking" => reqs[i].calls = 1

\* C11 amended: every application of applyRoundResult is preceded by the provider
\* calls of the one judgeRound invocation made for that round: none when no
\* credential is configured, otherwise between one and three, the first call
\* and one more after each rate-limit wait.
C11_CallsPerRound ==
    /\ pc = "judged" =>
          /\ Cardinality(CallsAt(log)) \in 0 .. 3
          /\ Cardinality(CallsAt(log)) = 0 <=> NoCredential
          /\ ~NoCredential => Cardinality(CallsAt(log)) = 1 + Cardinality(WaitsAt(log))
    /\ \A i \in Requests : reqs[i].pc = "speaking" =>
          /\ reqs[i].calls \in 0 .. 3
          /\ reqs[i].calls = 0 <=> NoCredential

\* the second round of a CLI game judged after three provider calls and two waits
C11_Witness ==
    /\ pc = "judged"
    /\ applied = 1
    /\ Cardinality(CallsAt(log)) = 3
    /\ Cardinality(WaitsAt(log)) = 2

\* C21: the RoundState passed to buildRoundPrompt, judgeRound and applyRoundResult
\* reads the same after the call as before it, applyRoundResult returns a new
\* record, and the current game state changes only in a step of the orchestration
\* loop that assigns it the record returned for the current state (or a new game).
C21_StateNotMutated ==
    [][/\ passed'.intact
       /\ passed'.fn = "applyRoundResult" => passed'.fresh
       /\ state' # state =>
             \/ state' = createState
             \/ /\ passed'.fn = "applyRoundResult"
                /\ state'.round = state.round + 1]_vars

\* two rounds have been applied, the second won by the user with the bomb, and the
\* record passed to applyRoundResult read afterwards as before
C21_Witness ==
    /\ passed.fn = "applyRoundResult"
    /\ passed.intact
    /\ passed.fresh
    /\ state = [round |-> 3, userScore |-> 2, botScore |-> 0, bombUsed |-> TRUE]

(***************************************************************************)
(* Fence stripping, under ParseSpec.                                       *)
(***************************************************************************)
\* the characters a fence adds around its body: ``` or ```json, and ```
FenceLen(f) == IF f = "json" THEN 10 ELSE 6

\* a text that is valid JSON wrapped in one complete fence
FencedJson(t) ==
    /\ t.fence \in {"plain", "json"}
    /\ t.kind \in {"null", "number", "string", "array", "object"}
    /\ t.len > FenceLen(t.fence)

\* the text inside the fence of t
Unfenced(t) == [t EXCEPT !.fence = "none", !.len = @ - FenceLen(t.fence)]

\* JSON whose handling after JSON.parse throws: null (a member of null is read), or
\* an object with a reason or response that String() cannot convert
ConversionThrows(t) ==
    \/ t.kind = "null"
    \/ /\ t.kind = "object"
       /\ \/ t.response = BadObj
          \/ t.intent.t = "obj" /\ t.intent.reason = BadObj

\* C22 as stated: for every valid JSON text, the parser returns for the fenced
\* text the same record as for the text itself; a text with another tag or an
\* unclosed fence is parsed as is, which is no JSON.
C22_FenceTransparent ==
    pc = "parsed" =>
        /\ FencedJson(text) => result = parseStructuredOutput(Unfenced(text))
        /\ text.fence \in {"other", "open"} => result = NotJsonResult(text)

\* C22 amended: the records are the same whenever the handling of the parsed JSON
\* does not throw; when it throws, both are the not-valid-JSON record, the same
\* in status, move, reason and round_winner, and each has as response the first
\* 500 characters of its own argument, which for the fenced text includes the
\* fence.
C22_FenceTransparentUnlessThrown ==
    pc = "parsed" =>
        /\ (FencedJson(text) /\ ~ConversionThrows(text)) =>
              /\ result = parseStructuredOutput(Unfenced(text))
              /\ result.reason # Str("Response was not valid JSON.")
        /\ (FencedJson(text) /\ ConversionThrows(text)) =>
              /\ result = NotJsonResult(text)
              /\ parseStructuredOutput(Unfenced(text)) = NotJsonResult(Unfenced(text))
              /\ result.response = Str(SubSeq(RawText(text), 1, Len(result.response.v)))
              /\ Len(result.response.v) = (IF text.len <= 500 THEN text.len ELSE 500)
        /\ text.fence \in {"other", "open"} => result = NotJsonResult(text)

\* a VALID bomb round in a json-tagged fence has been parsed
C22_Witness ==
    /\ pc = "parsed"
    /\ text.fence = "json"
    /\ text.kind = "object"
    /\ result.status = Str("VALID")
    /\ result.move = Str("bomb")
    /\ result.round_winner = Str("user")
    /\ result.response = Str("Round played.")

(***************************************************************************)
(* Validation of the parsed reply, under ParseSpec.                        *)
(***************************************************************************)
\* the text is a JSON object (bare or in a fence that is stripped) whose reason and
\* response String() can convert
ObjectReply(t) ==
    /\ t.kind = "object"
    /\ t.fence \in {"none", "plain", "json"}
    /\ ~ConversionThrows(t)

\* C23: in a reply that parses as a JSON object, status, move and round_winner are
\* validated each on its own: a value outside its domain becomes UNCLEAR (status)
\* or null (move, round_winner) and a value inside is kept, whatever the other two
\* are, and the result is not the not-valid-JSON record; with a missing or
\* non-object intent the result has status UNCLEAR, move null and reason
\* 'Missing intent.', and round_winner is still taken from the reply.
C23_IndependentValidation ==
    (pc = "parsed" /\ ObjectReply(text)) =>
        /\ result.reason # Str("Response was not valid JSON.")
        /\ result.round_winner =
              (IF text.round_winner \in {Str("user"), Str("bot"), Str("draw")}
               THEN text.round_winner ELSE Null)
        /\ text.intent.t = "obj" =>
              /\ result.status =
                    (IF text.intent.status \in {Str("VALID"), Str("INVALID"), Str("UNCLEAR")}
                     THEN text.intent.status ELSE Str("UNCLEAR"))
              /\ result.move =
                    (IF text.intent.move \in {Str("rock"), Str("paper"), Str("scissors"), Str("bomb")}
                     THEN text.intent.move ELSE Null)
        /\ text.intent.t \in {"undef", "null", "str"} =>
              /\ result.status = Str("UNCLEAR")
              /\ result.move = Null
              /\ result.reason = Str("Missing intent.")

\* a reply with an unknown status, move bomb and winner user has been parsed: the
\* status is UNCLEAR, the move and the winner are kept
C23_Witness ==
    /\ pc = "parsed"
    /\ ObjectReply(text)
    /\ text.intent.t = "obj"
    /\ text.intent.status = Str("valid")
    /\ text.intent.move = Str("bomb")
    /\ text.round_winner = Str("user")
    /\ result.status = Str("UNCLEAR")
    /\ result.move = Str("bomb")
    /\ result.round_winner = Str("user")

(***************************************************************************)
(* Waits of the retry loop, under JudgeSpec.                               *)
(***************************************************************************)
\* the wait in ms a message calls for: its "retry in Ns" rounded up to a whole
\* millisecond (N is kept in units of 0.1 ms), 10000 without the phrase
ExpectedWaitMs(err) == IF err.retry = NoDelay THEN 10000 ELSE (err.retry + 9) \div 10

\* where the waits are: each wait follows a rate-limit failure and is followed by a
\* call, each call but the first follows a wait, and a finished invocation does
\* not end on a wait
WaitsBetweenRetries ==
    /\ \A i \in WaitsAt(log) :
          /\ i > 1
          /\ log[i - 1].e = "quota"
          /\ i < Len(log)
          /\ log[i + 1].e = "call"
    /\ \A i \in CallsAt(log) : i > 1 => log[i - 1].e = "wait"
    /\ log # << >> => log[1].e = "call"
    /\ Cardinality(WaitsAt(log)) = Cardinality(CallsAt(log)) - (IF log = << >> THEN 0 ELSE 1)
    /\ \A i \in DOMAIN log : log[i].e = "other" => i = Len(log)
    /\ pc = "judged" /\ log # << >> => log[Len(log)].e \in {"text", "empty", "quota", "other"}

\* a wait starts only on a rate-limit failure with a retry left, and it lasts what
\* the error just caught calls for
WaitLength ==
    /\ pc' = "sleeping" /\ pc = "calling" =>
          /\ lastErr'.quota
          /\ log' = Append(log, Ev("quota", 0))
          /\ Cardinality(CallsAt(log)) < 3
    /\ pc = "sleeping" =>
          /\ lastErr' = lastErr
          /\ log' = log \o << Ev("wait", ExpectedWaitMs(lastErr)), CallEv(ExpectedProvider) >>

TypoFixed(w) == IF ToLowerCase(w) \in DOMAIN TYPO_MAP THEN TYPO_MAP[ToLowerCase(w)] ELSE w

RECURSIVE Concat(_)
Concat(ws) == IF ws = << >> THEN "" ELSE Head(ws) \o Concat(Tail(ws))

\* C25: normalizeMoveInput returns a string; for a single word that is a known
\* typo or a canonical move in any letter case, the lowercase canonical move; for
\* any other single word, the trimmed input; for several words, the trimmed input
\* with the known typos replaced and every other word unchanged; applied to its own
\* result it returns that result.
C25_Normalize ==
    norm # << >> =>
        LET t == Trim(raw)
            single == \A i \in 1 .. Len(t) : Ch(t, i) \notin WhiteSpace
            words == SplitOnWordBoundary(t)
        IN  /\ norm[1].t = "str"
            /\ (single /\ t # "") =>
                  norm[1].v = (IF ToLowerCase(t) \in CANONICAL THEN ToLowerCase(t) ELSE TypoFixed(t))
            /\ ~single => norm[1].v = Concat([i \in DOMAIN words |-> TypoFixed(words[i])])
            /\ Len(norm) = 2 => norm[2] = norm[1]

(***************************************************************************)
(* Properties of the voice server, under ServerSpec and LoopsSpec.         *)
(***************************************************************************)
\* C26: once the game is over, a POST /api/voice request with audio is answered
\* with the game-over notice, no transcribe and no judgeRound call is started,
\* and the game state stays as it is until a new game resets it.
C26_GameOverFrozen ==
    [][isGameOver(state) =>
          /\ state' = state \/ state' = createState
          /\ \A i \in Requests :
                /\ (reqs'[i].pc \in {"transcribing", "calling", "speaking"}) => reqs'[i] = reqs[i]
                /\ (reqs[i].pc = "body" /\ reqs'[i].status = 200) => reqs'[i].sent = "gameOver"]_vars

\* C27: the round stays between 1 and TOTAL_ROUNDS + 1 and the scores add up to
\* at most round - 1, in the CLI loop and in the voice server.
C27_RoundBound ==
    /\ 1 <= state.round
    /\ state.round <= 3 + 1
    /\ state.userScore + state.botScore <= state.round - 1

\* C28: while a request is between its call of judgeRound and the application of
\* the result, the game state does not change: the result is applied to the state
\* it was judged against.
C28_AppliedToJudgedState ==
    [][\A i \in Requests :
          (reqs[i].pc \in {"calling", "sleeping"} /\ reqs'[i].pc \in {"calling", "sleeping"})
              => state' = state]_vars

\* C29: a request that ends without a judge result -- no ElevenLabs key, a body
\* that is no JSON, no audio field, a failed transcription -- is answered 500 (400
\* for the missing audio) with an error body and leaves the game state as it is;
\* a POST /api/voice step changes the state only by applying a judge result; a
\* request whose text-to-speech failed is answered 200 with audioBase64 null, and
\* the state it advanced stays advanced.
C29_ErrorsKeepState ==
    [][\A i \in Requests :
          /\ (reqs'[i] # reqs[i] /\ reqs'[i].why \in {"nokey", "badjson", "noaudio", "stt"}) =>
                /\ reqs'[i].status = (IF reqs'[i].why = "noaudio" THEN 400 ELSE 500)
                /\ reqs'[i].sent = "error"
                /\ state' = state
          /\ (reqs'[i] # reqs[i] /\ reqs'[i].status \in {400, 500}) =>
                /\ reqs[i].pc \in {"idle", "done", "body", "transcribing"}
                /\ state' = state
          /\ (reqs'[i] # reqs[i] /\ reqs[i].pc = "speaking") =>
                /\ reqs'[i].status = 200
                /\ reqs'[i].why = "rejects" => reqs'[i].sent = "roundNoAudio"
                /\ state' = state
          /\ (reqs'[i] # reqs[i] /\ state' # state) =>
                /\ reqs[i].pc \in {"transcribing", "calling"}
                /\ reqs'[i].pc = "speaking"
                /\ state'.round = state.round + 1]_vars

\* a first round was judged and applied, text-to-speech failed, and the request
\* was answered 200 without audio
C29_Witness ==
    \E i \in Requests :
        /\ reqs[i].pc = "done"
        /\ reqs[i].why = "rejects"
        /\ reqs[i].status = 200
        /\ reqs[i].sent = "roundNoAudio"
        /\ state.round = 2

(***************************************************************************)
(* The error summary of a failed invocation, under JudgeSpec.              *)
(***************************************************************************)
\* the summary a message calls for: the rate-limit text before the model-not-found
\* text before the auth text, and otherwise the message cut to 120 characters and
\* an ellipsis
ExpectedSummary(err) ==
    IF err.quota
    THEN Str("Rate limit exceeded. Wait ~" \o ToString(WaitSeconds(err)) \o "s and try again.")
    ELSE IF err.notFound
    THEN (IF ExpectedProvider = "gemini"
          THEN Str("Model not found. Try setting GEMINI_MODEL (e.g. gemini-2.0-flash).")
          ELSE Str("Model not found. Try setting ANTHROPIC_MODEL (e.g. claude-3-5-haiku-latest)."))
    ELSE IF err.auth
    THEN Str("Invalid or missing API key. Set GEMINI_API_KEY or ANTHROPIC_API_KEY.")
    ELSE IF err.len > 120 THEN Str(SubSeq(Chars(err.len), 1, 120) \o "~")
    ELSE Str(Chars(err.len))

StartsWith(s, p) == Len(s) >= Len(p) /\ SubSeq(s, 1, Len(p)) = p

\* the invocation ended on a failed provider call
EndedOnError ==
    /\ pc = "judged"
    /\ log # << >>
    /\ log[Len(log)].e \in {"quota", "other"}

\* C30: the summary of a failed invocation is that of its last error: after one
\* or two rate-limit errors and then another error, the reason is the last
\* error's summary and not the rate-limit text; an error matching several
\* patterns is summarised as rate-limit before model-not-found before auth.
C30_LastErrorSummarised ==
    EndedOnError =>
        /\ lastErr.quota <=> log[Len(log)].e = "quota"
        /\ result.reason = ExpectedSummary(lastErr)
        /\ result.response = Str("Judge error: " \o result.reason.v)
        /\ log[Len(log)].e = "other" =>
              ~StartsWith(result.reason.v, "Rate limit")

\* two rate-limit errors and then an error matching both the model-not-found and
\* the auth pattern: the reason is the model-not-found text
C30_Witness ==
    /\ EndedOnError
    /\ Len(log) = 8
    /\ log[2].e = "quota" /\ log[5].e = "quota" /\ log[8].e = "other"
    /\ lastErr.notFound /\ lastErr.auth
    /\ StartsWith(result.reason.v, "Model not found")

====
